---- MODULE Spec2Model ----
(***************************************************************************)
(* A model of loago: the Tasks store (src/src/lib.rs), its conversions to  *)
(* and from the persisted string map, the report (OutputTasks and its      *)
(* Display), and the command-line program around them (src/src/main.rs,    *)
(* src/src/args.rs).                                                       *)
(*                                                                         *)
(* A String is a sequence of characters, each character a short TLA+       *)
(* string.       A HashMap is a function whose DOMAIN is its key set.      *)
(* A NaiveDateTime is a record [year, month, day, secs, frac]: secs is the *)
(* second of the day and frac the nanosecond, where frac >= 10^9 is        *)
(* chrono's representation of a leap second.                               *)
(***************************************************************************)
EXTENDS Integers, Sequences, FiniteSets, TLC

VARIABLES
    tasks,      \* the Tasks value a library call works on (lib.rs:20)
    clock,      \* the system clock: now() is ClockAt(clock)
    op,         \* the last library call made, with its arguments
    before,     \* the Tasks value as it was before that call
    output,     \* the OutputTasks built by output_when
    printed,    \* the text OutputTasks's Display wrote
    map,        \* a HashMap<String, String>, the persisted form
    loaded,     \* the Result of Tasks::try_from(map)
    file,       \* the data file
    pc,         \* per invocation: the position in main
    action,     \* per invocation: the parsed Action
    ptasks,     \* per invocation: the Tasks value main holds
    contents,   \* per invocation: what read returned
    writes      \* the calls made on the data file, in the order they happened

vars == <<tasks, clock, op, before, output, printed, map, loaded,
          file, pc, action, ptasks, contents, writes>>

None == "None"

-----------------------------------------------------------------------------
(* Bounds of the model. *)

\* the clock takes the values ClockAt(0) .. ClockAt(MaxClock)
MaxClock == 2
\* the longest list of task names passed to a call or given on the command line
MaxNames == 2

-----------------------------------------------------------------------------
(* Strings. *)

Dust     == <<"d", "u", "s", "t">>
Vacuum   == <<"v", "a", "c", "u", "u", "m">>
Exercise == <<"e", "x", "e", "r", "c", "i", "s", "e">>
\* the characters outside ASCII, written by name: U+00E9 (two bytes in UTF-8)
\* and U+2014, the separator of the report (three bytes)
EAcute == "e-acute"
EmDash == "em-dash"
\* a name with a character that takes two bytes in UTF-8
The      == <<"t", "h", EAcute>>
Ghost    == <<"g", "h", "o", "s", "t">>

\* the number of bytes of a character in a Rust String (UTF-8)
Utf8Len(c) == IF c = EAcute THEN 2 ELSE IF c = EmDash THEN 3 ELSE 1

RECURSIVE ByteLen(_)
\* str::len: the length of a string in bytes
ByteLen(s) == IF s = <<>> THEN 0 ELSE Utf8Len(Head(s)) + ByteLen(Tail(s))

\* " ".repeat(n)
Repeat(c, n) == [i \in 1..n |-> c]

Digits == <<"0", "1", "2", "3", "4", "5", "6", "7", "8", "9">>

IsDigit(c) == \E i \in 1..10 : Digits[i] = c

DigitVal(c) == (CHOOSE i \in 1..10 : Digits[i] = c) - 1

RECURSIVE NatToString(_)
\* the decimal digits of a natural number
NatToString(n) ==
    IF n < 10 THEN <<Digits[n + 1]>>
    ELSE NatToString(n \div 10) \o <<Digits[(n % 10) + 1]>>

\* i64::to_string
IntToString(n) == IF n < 0 THEN <<"-">> \o NatToString(-n) ELSE NatToString(n)

\* {:0w}: a natural number in at least w digits, padded with zeros on the left
ZeroPad(n, w) ==
    LET s == NatToString(n)
    IN  IF Len(s) >= w THEN s ELSE Repeat("0", w - Len(s)) \o s

\* Rust's integer division, which truncates toward zero
TruncDiv(a, b) == IF a >= 0 THEN a \div b ELSE -((-a) \div b)

-----------------------------------------------------------------------------
(* chrono's NaiveDateTime and Duration. *)

Billion == 1000 * 1000 * 1000
SecsPerDay == 24 * 60 * 60

IsLeapYear(y) == (y % 4 = 0 /\ y % 100 # 0) \/ y % 400 = 0

DaysInMonth(y, m) ==
    IF m = 2 THEN (IF IsLeapYear(y) THEN 29 ELSE 28)
    ELSE IF m \in {4, 6, 9, 11} THEN 30 ELSE 31

RECURSIVE DaysBeforeMonth(_, _)
DaysBeforeMonth(y, m) ==
    IF m = 1 THEN 0 ELSE DaysBeforeMonth(y, m - 1) + DaysInMonth(y, m - 1)

\* the number of days from 0000-01-01 to the first day of year y (y >= 0; the
\* stores that are rendered hold no earlier year)
DaysBeforeYear(y) ==
    IF y = 0 THEN 0
    ELSE 365 * y + ((y - 1) \div 4) - ((y - 1) \div 100) + ((y - 1) \div 400) + 1

\* the day number of a date
DayNumber(t) == DaysBeforeYear(t.year) + DaysBeforeMonth(t.year, t.month) + t.day

\* NaiveDate::from_ymd_opt(y, m, d).unwrap().and_hms_opt(h, mi, s).unwrap()
YmdHms(y, m, d, h, mi, s) ==
    [year |-> y, month |-> m, day |-> d, secs |-> (h * 60 + mi) * 60 + s, frac |-> 0]

WithFrac(t, f) == [t EXCEPT !.frac = f]

\* a Duration is [secs, nanos] with 0 <= nanos < 10^9, as in chrono
\* NaiveDateTime - NaiveDateTime: the date difference plus the time difference,
\* where a leap second of the earlier time of day counts as one more second
Sub(a, b) ==
    LET adjust == IF a.secs > b.secs THEN (IF b.frac >= Billion THEN 1 ELSE 0)
                  ELSE IF a.secs < b.secs THEN (IF a.frac >= Billion THEN -1 ELSE 0)
                  ELSE 0
        s == (DayNumber(a) - DayNumber(b)) * SecsPerDay + (a.secs - b.secs) + adjust
        f == a.frac - b.frac
    IN  [secs |-> s + (f \div Billion), nanos |-> f % Billion]

\* the derived Ord of Duration: by secs, then by nanos
DurLeq(x, y) == x.secs < y.secs \/ (x.secs = y.secs /\ x.nanos <= y.nanos)

DurLess(x, y) == x.secs < y.secs \/ (x.secs = y.secs /\ x.nanos < y.nanos)

\* Duration::num_seconds: whole seconds, rounded toward zero
NumSeconds(x) == IF x.secs < 0 /\ x.nanos > 0 THEN x.secs + 1 ELSE x.secs

NumDays(x) == TruncDiv(NumSeconds(x), SecsPerDay)

NumHours(x) == TruncDiv(NumSeconds(x), 60 * 60)

NumMinutes(x) == TruncDiv(NumSeconds(x), 60)

-----------------------------------------------------------------------------
(* The clock. *)

ClockFracs == <<0, 250000000, 123456789, 999999000>>

\* the i-th reading of the clock: 2023-12-21T08:30:00 plus i seconds and a
\* varying sub-second part
ClockAt(i) ==
    WithFrac(YmdHms(2023, 12, 21, 8, 30, i), ClockFracs[(i % Len(ClockFracs)) + 1])

\* now(): Utc::now().naive_utc()
Now == ClockAt(clock)

-----------------------------------------------------------------------------
(* HashMap. *)

EmptyMap == <<>>

\* HashMap::insert
Insert(m, k, v) == [x \in DOMAIN m \cup {k} |-> IF x = k THEN v ELSE m[x]]

\* HashMap::remove
Delete(m, k) == [x \in DOMAIN m \ {k} |-> m[x]]

\* the lists of at most MaxNames names drawn from S
NameSeqs(S) == UNION {[1..n -> S] : n \in 0..MaxNames}

\* the maps from a subset of the keys K to the values V
Maps(K, V) == UNION {[D -> V] : D \in SUBSET K}

-----------------------------------------------------------------------------
(* Tasks: the mutating methods (lib.rs:98-155). *)

\* Tasks::update, with the reading of the clock it takes
update(self, task, now) == Insert(self, task, now)

RECURSIVE InsertEach(_, _, _)
\* the loop of update_multiple: names[i] is inserted with stamps[i]
InsertEach(self, names, stamps) ==
    IF names = <<>> THEN self
    ELSE InsertEach(Insert(self, Head(names), Head(stamps)), Tail(names), Tail(stamps))

\* a variant that reads the clock anew for every name, as a loop of update would
update_multiple_reading_each(self, names, reads) ==
    InsertEach(self, names, [i \in 1..Len(names) |-> ClockAt(reads[i + 1])])

\* Tasks::update_multiple.  reads[1] is the clock when the call starts and
\* reads[i + 1] the clock when the loop inserts names[i]; the code reads the
\* clock once, before the loop
update_multiple(self, names, reads) ==
    LET now == ClockAt(reads[1])
    IN  InsertEach(self, names, [i \in 1..Len(names) |-> now])

\* Tasks::remove
remove(self, task) == Delete(self, task)

\* a variant that removes the first name only
remove_multiple_first_only(self, names) ==
    IF names = <<>> THEN self ELSE Delete(self, Head(names))

RECURSIVE remove_multiple(_, _)
\* Tasks::remove_multiple
remove_multiple(self, names) ==
    IF names = <<>> THEN self
    ELSE remove_multiple(Delete(self, Head(names)), Tail(names))

\* Tasks::keep
keep(self, task) ==
    IF task \in DOMAIN self THEN Insert(EmptyMap, task, self[task]) ELSE EmptyMap

RECURSIVE KeepLoop(_, _, _)
\* the loop of keep_multiple: m is the new map being filled
KeepLoop(self, names, m) ==
    IF names = <<>> THEN m
    ELSE LET task == Head(names)
         IN  KeepLoop(self, Tail(names),
                      IF task \in DOMAIN self THEN Insert(m, task, self[task]) ELSE m)

RECURSIVE keep_multiple_chained(_, _)
\* a variant that calls keep for every name in turn, each call dropping what
\* the calls before it kept
keep_multiple_chained(self, names) ==
    IF names = <<>> THEN EmptyMap
    ELSE IF Len(names) = 1 THEN keep(self, Head(names))
    ELSE keep_multiple_chained(keep(self, Head(names)), Tail(names))

\* Tasks::keep_multiple
keep_multiple(self, names) == KeepLoop(self, names, EmptyMap)

-----------------------------------------------------------------------------
(* The library calls on a Tasks value, as a state machine. *)

\* december() of the tests: 2023-12-20T00:00:00
December == YmdHms(2023, 12, 20, 0, 0, 0)

StoreNames == {Dust, Vacuum, Exercise}
ArgNames == {Dust, Ghost}

\* Tasks::same_days() of the tests
SameDays == [k \in StoreNames |-> December]

LibraryIdle ==
    /\ output = None /\ printed = None /\ map = None /\ loaded = None
    /\ file = None /\ pc = None /\ action = None /\ ptasks = None
    /\ contents = None /\ writes = None

InitTasks ==
    /\ tasks \in Maps(StoreNames, {December})
    /\ clock = 0
    /\ op = [kind |-> "new"]
    /\ before = EmptyMap
    /\ LibraryIdle

unchangedRest == UNCHANGED <<output, printed, map, loaded, file, pc, action, ptasks, contents, writes>>

\* time passes between two calls
Tick ==
    /\ clock < MaxClock
    /\ clock' = clock + 1
    /\ UNCHANGED <<tasks, op, before>>
    /\ unchangedRest

Update(task) ==
    /\ tasks' = update(tasks, task, Now)
    /\ before' = tasks
    /\ op' = [kind |-> "update", names |-> <<task>>, now |-> Now]
    /\ UNCHANGED clock
    /\ unchangedRest

\* the clock advances by drift at every step of the loop, as far as it goes
ClockReads(n, drift) ==
    [i \in 1..(n + 1) |->
        IF clock + (i - 1) * drift <= MaxClock THEN clock + (i - 1) * drift ELSE MaxClock]

UpdateMultiple(names, drift) ==
    LET reads == ClockReads(Len(names), drift)
    IN  /\ tasks' = update_multiple(tasks, names, reads)
        /\ before' = tasks
        /\ op' = [kind |-> "update_multiple", names |-> names, now |-> Now]
        /\ clock' = reads[Len(reads)]
        /\ unchangedRest

Remove(task) ==
    /\ tasks' = remove(tasks, task)
    /\ before' = tasks
    /\ op' = [kind |-> "remove", names |-> <<task>>]
    /\ UNCHANGED clock
    /\ unchangedRest

RemoveMultiple(names) ==
    /\ tasks' = remove_multiple(tasks, names)
    /\ before' = tasks
    /\ op' = [kind |-> "remove_multiple", names |-> names]
    /\ UNCHANGED clock
    /\ unchangedRest

Keep(task) ==
    /\ tasks' = keep(tasks, task)
    /\ before' = tasks
    /\ op' = [kind |-> "keep", names |-> <<task>>]
    /\ UNCHANGED clock
    /\ unchangedRest

KeepMultiple(names) ==
    /\ tasks' = keep_multiple(tasks, names)
    /\ before' = tasks
    /\ op' = [kind |-> "keep_multiple", names |-> names]
    /\ UNCHANGED clock
    /\ unchangedRest

NextTasks ==
    \/ Tick
    \/ \E task \in ArgNames : Update(task)
    \/ \E names \in NameSeqs(ArgNames), drift \in 0..1 : UpdateMultiple(names, drift)
    \/ \E task \in ArgNames : Remove(task)
    \/ \E names \in NameSeqs(ArgNames) : RemoveMultiple(names)
    \/ \E task \in ArgNames : Keep(task)
    \/ \E names \in NameSeqs(ArgNames) : KeepMultiple(names)

SpecTasks == InitTasks /\ [][NextTasks]_vars

-----------------------------------------------------------------------------
(* Properties of the mutating methods. *)

Range(s) == {s[i] : i \in DOMAIN s}

\* C4: after update_multiple(names) every name of names is in the store with
\* the one reading of the clock taken when the call started, however far the
\* clock advanced during the call, and every other task is as it was before.
C4_UpdateMultipleOneTimestamp ==
    op.kind = "update_multiple" =>
        /\ DOMAIN tasks = DOMAIN before \cup Range(op.names)
        /\ \A k \in Range(op.names) : tasks[k] = op.now
        /\ \A k \in DOMAIN before \ Range(op.names) : tasks[k] = before[k]

\* two names updated by one call during which the clock advanced, next to a
\* task the call did not name
C4_Witness ==
    /\ op.kind = "update_multiple"
    /\ op.names = <<Ghost, Dust>>
    /\ Now # op.now
    /\ tasks[Ghost] = op.now /\ tasks[Dust] = op.now
    /\ Exercise \in DOMAIN tasks /\ tasks[Exercise] = December

\* C6: after keep or keep_multiple the store holds exactly the entries of the
\* previous store whose name is among the names given, timestamps unchanged.
C6_KeepExactlyNamedPresent ==
    op.kind \in {"keep", "keep_multiple"} =>
        /\ DOMAIN tasks = DOMAIN before \cap Range(op.names)
        /\ \A k \in DOMAIN tasks : tasks[k] = before[k]

\* keeping a present name and a name the store does not hold, on the store of
\* three tasks: one entry is left, none is made for the absent name
C6_Witness ==
    /\ op.kind = "keep_multiple"
    /\ op.names = <<Dust, Ghost>>
    /\ DOMAIN before = {Dust, Vacuum, Exercise}
    /\ DOMAIN tasks = {Dust}

\* C8: remove and remove_multiple delete exactly the named entries that are
\* present; every other entry keeps its timestamp, and an absent name changes
\* nothing.
C8_RemoveExactlyNamed ==
    op.kind \in {"remove", "remove_multiple"} =>
        /\ DOMAIN tasks = DOMAIN before \ Range(op.names)
        /\ \A k \in DOMAIN tasks : tasks[k] = before[k]
        /\ (Range(op.names) \cap DOMAIN before = {}) => tasks = before

\* removing an absent name and a present one from the store of the tests
C8_Witness ==
    /\ op.kind = "remove_multiple"
    /\ op.names = <<Ghost, Dust>>
    /\ before = SameDays
    /\ DOMAIN tasks = {Vacuum, Exercise}

-----------------------------------------------------------------------------
(* The report: Tasks::output_when and the Display of OutputTasks            *)
(* (lib.rs:157-249), and the two formatters of the program (lib.rs:165,     *)
(* args.rs:72-80).                                                          *)

HOURS_IN_DAY == 24
MINUTES_IN_HOUR == 60

\* |duration| duration.num_days().to_string()
DaysText(d) == IntToString(NumDays(d))

\* the closure of "view --minutes": {days}d {hours}h {minutes}m
MinutesText(d) ==
    LET days == NumDays(d)
        total_hours == NumHours(d)
        total_minutes == NumMinutes(d)
        hours == total_hours - (days * HOURS_IN_DAY)
        minutes == total_minutes - (total_hours * MINUTES_IN_HOUR)
    IN  IntToString(days) \o <<"d", " ">> \o IntToString(hours) \o <<"h", " ">>
            \o IntToString(minutes) \o <<"m">>

\* the to_string closure passed to output_when, by name
ToText(formatter, d) == IF formatter = "minutes" THEN MinutesText(d) ELSE DaysText(d)

\* x goes after every element whose key is not greater than its own
InsertSorted(sorted, x) ==
    LET n == Cardinality({i \in 1..Len(sorted) : DurLeq(sorted[i][2], x[2])})
    IN  SubSeq(sorted, 1, n) \o <<x>> \o SubSeq(sorted, n + 1, Len(sorted))

RECURSIVE SortByKey(_)
\* Vec::sort_by_key on the duration: a stable sort, ascending
SortByKey(seq) ==
    IF seq = <<>> THEN <<>>
    ELSE InsertSorted(SortByKey(SubSeq(seq, 1, Len(seq) - 1)), seq[Len(seq)])

\* a variant that leaves the pairs in the order the map was iterated in
output_when_unsorted(self, now, formatter, order) ==
    [i \in 1..Len(order) |-> <<order[i], ToText(formatter, Sub(now, self[order[i]]))>>]

\* Tasks::output_when.  order is the order in which the HashMap is iterated,
\* which the code does not control
output_when(self, now, formatter, order) ==
    LET pairs == [i \in 1..Len(order) |-> <<order[i], Sub(now, self[order[i]])>>]
        sorted == SortByKey(pairs)
    IN  [i \in 1..Len(sorted) |-> <<sorted[i][1], ToText(formatter, sorted[i][2])>>]

RECURSIVE MaxByteLen(_, _)
\* the first loop of fmt: the greatest byte length of a task name
MaxByteLen(out, length) ==
    IF out = <<>> THEN length
    ELSE MaxByteLen(Tail(out),
                    IF ByteLen(Head(out)[1]) > length THEN ByteLen(Head(out)[1]) ELSE length)

RECURSIVE FmtLines(_, _)
\* the second loop of fmt: one line per pair, appended to the buffer
FmtLines(out, length) ==
    IF out = <<>> THEN <<>>
    ELSE LET key == Head(out)[1]
             days_diff == Head(out)[2]
             whitespace == Repeat(" ", length - ByteLen(key))
         IN  key \o whitespace \o <<" ", EmDash, " ">> \o days_diff \o <<"\n">>
                 \o FmtLines(Tail(out), length)

\* a variant that pads nothing
fmt_unpadded(out) == FmtLines(out, 0)

\* <OutputTasks as Display>::fmt
fmt(out) == FmtLines(out, MaxByteLen(out, 0))

\* the orders a HashMap with the keys of m can be iterated in
Orders(m) ==
    {f \in [1..Cardinality(DOMAIN m) -> DOMAIN m] :
        \A i, j \in DOMAIN f : i # j => f[i] # f[j]}

-----------------------------------------------------------------------------
(* The report, as a state machine: a store is rendered, then printed. *)

\* november(day) of the tests
november(day) == YmdHms(2023, day, 20, 0, 0, 0)

\* Tasks::different_days() of the tests
DifferentDays ==
    (Dust :> november(1)) @@ (Vacuum :> november(2)) @@ (Exercise :> november(3))

\* the store {dust: 2023-11-01, vacuum: 2023-11-02, exercise: 2023-11-03}
NovemberDays ==
    (Dust :> YmdHms(2023, 11, 1, 0, 0, 0)) @@ (Vacuum :> YmdHms(2023, 11, 2, 0, 0, 0))
        @@ (Exercise :> YmdHms(2023, 11, 3, 0, 0, 0))

ReportNames == {Dust, Vacuum, Exercise, The}

\* timestamps before the clock, equal to a clock reading, and after the clock
ReportTimes ==
    { December,
      WithFrac(YmdHms(2023, 12, 19, 21, 14, 59), 500000000),
      ClockAt(0),
      YmdHms(2023, 12, 24, 18, 0, 0) }

InitOutput ==
    /\ tasks \in Maps(ReportNames, ReportTimes) \cup {DifferentDays, NovemberDays}
    /\ clock \in 0..MaxClock
    /\ op = [kind |-> "new"]
    /\ before = EmptyMap
    /\ output = <<>> /\ printed = <<>>
    /\ map = None /\ loaded = None
    /\ file = None /\ pc = None /\ action = None /\ ptasks = None
    /\ contents = None /\ writes = None

\* output_when consumes the Tasks value
OutputWhen(now, formatter, order) ==
    /\ op.kind = "new"
    /\ output' = output_when(tasks, now, formatter, order)
    /\ before' = tasks
    /\ tasks' = EmptyMap
    /\ op' = [kind |-> "output_when", now |-> now, formatter |-> formatter]
    /\ UNCHANGED <<clock, printed, map, loaded, file, pc, action, ptasks, contents, writes>>

\* Tasks::output: output_when at now()
Output(formatter, order) == OutputWhen(Now, formatter, order)

\* Tasks::output_days
OutputDays(order) == Output("days", order)

\* print!("{}", output)
Display ==
    /\ op.kind = "output_when"
    /\ printed' = fmt(output)
    /\ op' = [op EXCEPT !.kind = "display"]
    /\ UNCHANGED <<tasks, clock, before, output, map, loaded,
                   file, pc, action, ptasks, contents, writes>>

NextOutput ==
    \/ \E formatter \in {"days", "minutes"}, order \in Orders(tasks) :
            OutputWhen(December, formatter, order)
    \/ \E order \in Orders(tasks) : Output("minutes", order)
    \/ \E order \in Orders(tasks) : OutputDays(order)
    \/ Display

SpecOutput == InitOutput /\ [][NextOutput]_vars

-----------------------------------------------------------------------------
(* Properties of the report. *)

Sep == <<" ", EmDash, " ">>

\* "exercise - 275\nvacuum   - 303\ndust     - 334\n", with the separator U+2014
ExpectedText ==
    Exercise \o Sep \o <<"2", "7", "5", "\n">>
        \o Vacuum \o <<" ", " ">> \o Sep \o <<"3", "0", "3", "\n">>
        \o Dust \o <<" ", " ", " ", " ">> \o Sep \o <<"3", "3", "4", "\n">>

\* the store {dust: 2023-01-20, vacuum: 2023-02-20, exercise: 2023-03-20}
TwentiethDays ==
    (Dust :> YmdHms(2023, 1, 20, 0, 0, 0)) @@ (Vacuum :> YmdHms(2023, 2, 20, 0, 0, 0))
        @@ (Exercise :> YmdHms(2023, 3, 20, 0, 0, 0))

\* C1, as stated: the store {dust: 2023-11-01, vacuum: 2023-11-02, exercise:
\* 2023-11-03} rendered at 2023-12-20 in days prints ExpectedText.
C1_NovemberStorePrintsExpected ==
    (op.kind = "display" /\ before = NovemberDays /\ op.now = December
        /\ op.formatter = "days") => printed = ExpectedText

\* C1, amended: the store the test builds, different_days(), whose dates are
\* 2023-01-20, 2023-02-20 and 2023-03-20, rendered at 2023-12-20 in days prints
\* ExpectedText.
C1_DifferentDaysPrintsExpected ==
    (op.kind = "display" /\ before = DifferentDays /\ op.now = December
        /\ op.formatter = "days") => printed = ExpectedText

C1_Witness ==
    /\ op.kind = "display" /\ op.now = December /\ op.formatter = "days"
    /\ before = TwentiethDays
    /\ printed = ExpectedText

\* the elapsed time of the i-th pair of the output
Elapsed(i) == Sub(op.now, before[output[i][1]])

\* C2: output_when returns one pair per task of the store, the text being the
\* formatter applied to now - timestamp, in an order in which the elapsed time
\* never decreases; a task stamped after now is kept, with a negative elapsed
\* time, before every task whose elapsed time is not negative.
C2_OutputSortedByElapsed ==
    op.kind = "output_when" =>
        /\ Len(output) = Cardinality(DOMAIN before)
        /\ {output[i][1] : i \in 1..Len(output)} = DOMAIN before
        /\ \A i \in 1..Len(output) : output[i][2] = ToText(op.formatter, Elapsed(i))
        /\ \A i, j \in 1..Len(output) : i < j => DurLeq(Elapsed(i), Elapsed(j))
        /\ \A i, j \in 1..Len(output) :
                (Elapsed(i).secs < 0 /\ Elapsed(j).secs >= 0) => i < j

\* a store of three tasks, one of them stamped after now
C2_Witness ==
    /\ op.kind = "output_when"
    /\ Len(output) = 3
    /\ Elapsed(1).secs < 0
    /\ Elapsed(2).secs >= 0
    /\ DurLess(Elapsed(2), Elapsed(3))

\* the number of characters of the longest name of the report
MaxCharLen(out) ==
    IF out = <<>> THEN 0
    ELSE CHOOSE n \in {Len(out[i][1]) : i \in 1..Len(out)} :
            \A i \in 1..Len(out) : Len(out[i][1]) <= n

RECURSIVE AlignedReport(_, _)
\* the report with every name padded to w characters
AlignedReport(out, w) ==
    IF out = <<>> THEN <<>>
    ELSE Head(out)[1] \o Repeat(" ", w - Len(Head(out)[1])) \o Sep \o Head(out)[2]
            \o <<"\n">> \o AlignedReport(Tail(out), w)

\* C9: in the printed report every name is padded with spaces to the width of
\* the longest name and followed by " ", the separator, " ", the text and a
\* newline, so that the separator is in the same column on every line, also
\* for names with characters of more than one byte; an empty report prints
\* nothing.
C9_SeparatorAligned ==
    op.kind = "display" => printed = AlignedReport(output, MaxCharLen(output))

-----------------------------------------------------------------------------
(* The persisted form of a timestamp: format!("{:?}", timestamp) writes     *)
(* %Y-%m-%dT%H:%M:%S%.f (lib.rs:93) and str::parse reads it (lib.rs:72).    *)

\* the fraction of a second as Debug writes it: nothing, or a point and 3, 6
\* or 9 digits, the shortest of these that loses nothing
FormatFraction(nano) ==
    IF nano = 0 THEN <<>>
    ELSE IF nano % 1000000 = 0 THEN <<".">> \o ZeroPad(nano \div 1000000, 3)
    ELSE IF nano % 1000 = 0 THEN <<".">> \o ZeroPad(nano \div 1000, 6)
    ELSE <<".">> \o ZeroPad(nano, 9)

\* the year as Debug writes it: four digits, or a sign and at least four digits
\* for a year outside 0..9999
FormatYear(y) ==
    IF y >= 0 /\ y <= 9999 THEN ZeroPad(y, 4)
    ELSE IF y < 0 THEN <<"-">> \o ZeroPad(-y, 4) ELSE <<"+">> \o ZeroPad(y, 4)

\* a variant that always writes milliseconds
FormatTimestampMillis(t) ==
    FormatYear(t.year) \o <<"-">> \o ZeroPad(t.month, 2) \o <<"-">> \o ZeroPad(t.day, 2)
        \o <<"T">> \o ZeroPad(t.secs \div 3600, 2) \o <<":">>
        \o ZeroPad((t.secs \div 60) % 60, 2) \o <<":">> \o ZeroPad(t.secs % 60, 2)
        \o <<".">> \o ZeroPad((t.frac % Billion) \div 1000000, 3)

\* format!("{:?}", timestamp).  A leap second
\* (frac >= 10^9) is written as the second after, with the rest of frac
FormatTimestamp(t) ==
    LET leap == t.frac >= Billion
        sec  == (t.secs % 60) + (IF leap THEN 1 ELSE 0)
        nano == IF leap THEN t.frac - Billion ELSE t.frac
    IN  FormatYear(t.year) \o <<"-">> \o ZeroPad(t.month, 2) \o <<"-">> \o ZeroPad(t.day, 2)
            \o <<"T">> \o ZeroPad(t.secs \div 3600, 2) \o <<":">>
            \o ZeroPad((t.secs \div 60) % 60, 2) \o <<":">> \o ZeroPad(sec, 2)
            \o FormatFraction(nano)

RECURSIVE SkipSpaces(_)
SkipSpaces(s) == IF s # <<>> /\ Head(s) = " " THEN SkipSpaces(Tail(s)) ELSE s

RECURSIVE DigitRun(_, _)
\* the number of digits s starts with, max at most
DigitRun(s, max) ==
    IF max = 0 \/ s = <<>> \/ ~IsDigit(Head(s)) THEN 0 ELSE 1 + DigitRun(Tail(s), max - 1)

RECURSIVE DigitsValue(_)
DigitsValue(s) ==
    IF s = <<>> THEN 0 ELSE 10 * DigitsValue(SubSeq(s, 1, Len(s) - 1)) + DigitVal(s[Len(s)])

Drop(s, n) == SubSeq(s, n + 1, Len(s))

Failure(e) == [ok |-> FALSE, error |-> e]

\* scan::number: a number of min to max digits at the start of s
ScanNumber(s, min, max) ==
    LET n == DigitRun(s, max)
    IN  IF n < min THEN Failure(IF Len(s) < min THEN "TooShort" ELSE "Invalid")
        ELSE [ok |-> TRUE, value |-> DigitsValue(SubSeq(s, 1, n)), rest |-> Drop(s, n)]

\* a numeric item: spaces are skipped; a year may carry a sign, and then has
\* any number of digits
ScanNumeric(s, width, signed) ==
    LET t == SkipSpaces(s)
    IN  IF signed /\ t # <<>> /\ Head(t) = "-" THEN
            LET r == ScanNumber(Tail(t), 1, Len(t))
            IN  IF r.ok THEN [r EXCEPT !.value = -r.value] ELSE r
        ELSE IF signed /\ t # <<>> /\ Head(t) = "+" THEN ScanNumber(Tail(t), 1, Len(t))
        ELSE ScanNumber(t, 1, width)

\* a literal item
ScanLiteral(s, c) ==
    IF s = <<>> THEN Failure("TooShort")
    ELSE IF Head(s) # c THEN Failure("Invalid")
    ELSE [ok |-> TRUE, value |-> 0, rest |-> Tail(s)]

Pow10(n) == IF n = 0 THEN 1 ELSE
            IF n = 1 THEN 10 ELSE
            IF n = 2 THEN 100 ELSE
            IF n = 3 THEN 1000 ELSE
            IF n = 4 THEN 10000 ELSE
            IF n = 5 THEN 100000 ELSE
            IF n = 6 THEN 1000000 ELSE
            IF n = 7 THEN 10000000 ELSE 100000000

\* the %.f item: nothing, or a point and digits, of which the first nine count
ScanFraction(s) ==
    IF s = <<>> \/ Head(s) # "." THEN [ok |-> TRUE, value |-> 0, rest |-> s]
    ELSE LET n == DigitRun(Tail(s), 9)
             all == DigitRun(Tail(s), Len(s))
         IN  IF n = 0 THEN Failure(IF Len(s) = 1 THEN "TooShort" ELSE "Invalid")
             ELSE [ok |-> TRUE,
                   value |-> DigitsValue(SubSeq(Tail(s), 1, n)) * Pow10(9 - n),
                   rest |-> Drop(Tail(s), all)]

\* the fields that were read make a date and a time of day, or are out of range
Resolve(y, m, d, h, mi, sec, nano) ==
    IF \/ m < 1 \/ m > 12 \/ d < 1 \/ d > DaysInMonth(y, m)
       \/ h > 23 \/ mi > 59 \/ sec > 60
    THEN Failure("OutOfRange")
    ELSE [ok |-> TRUE,
          value |-> [year |-> y, month |-> m, day |-> d,
                     secs |-> (h * 60 + mi) * 60 + (IF sec = 60 THEN 59 ELSE sec),
                     frac |-> (IF sec = 60 THEN Billion ELSE 0) + nano]]

\* str::parse::<NaiveDateTime>: year - month - day T hour : minute : second
\* and an optional fraction, then the end of the string
ParseTimestamp(s) ==
    LET y == ScanNumeric(s, 4, TRUE) IN
    IF ~y.ok THEN y ELSE
    LET l1 == ScanLiteral(SkipSpaces(y.rest), "-") IN
    IF ~l1.ok THEN l1 ELSE
    LET m == ScanNumeric(l1.rest, 2, FALSE) IN
    IF ~m.ok THEN m ELSE
    LET l2 == ScanLiteral(SkipSpaces(m.rest), "-") IN
    IF ~l2.ok THEN l2 ELSE
    LET d == ScanNumeric(l2.rest, 2, FALSE) IN
    IF ~d.ok THEN d ELSE
    LET l3 == ScanLiteral(SkipSpaces(d.rest), "T") IN
    IF ~l3.ok THEN l3 ELSE
    LET h == ScanNumeric(l3.rest, 2, FALSE) IN
    IF ~h.ok THEN h ELSE
    LET l4 == ScanLiteral(SkipSpaces(h.rest), ":") IN
    IF ~l4.ok THEN l4 ELSE
    LET mi == ScanNumeric(l4.rest, 2, FALSE) IN
    IF ~mi.ok THEN mi ELSE
    LET l5 == ScanLiteral(SkipSpaces(mi.rest), ":") IN
    IF ~l5.ok THEN l5 ELSE
    LET sec == ScanNumeric(l5.rest, 2, FALSE) IN
    IF ~sec.ok THEN sec ELSE
    LET f == ScanFraction(sec.rest) IN
    IF ~f.ok THEN f ELSE
    IF SkipSpaces(f.rest) # <<>> THEN Failure("TooLong")
    ELSE Resolve(y.value, m.value, d.value, h.value, mi.value, sec.value, f.value)

-----------------------------------------------------------------------------
(* The conversions between Tasks and HashMap<String, String> (lib.rs:66-96). *)

\* a variant that writes every timestamp with milliseconds only
from_tasks_millis(value) == [key \in DOMAIN value |-> FormatTimestampMillis(value[key])]

\* impl From<Tasks> for HashMap<String, String>
from_tasks(value) == [key \in DOMAIN value |-> FormatTimestamp(value[key])]

RECURSIVE TryFromLoop(_, _, _)
\* the loop of try_from over the entries in the order of iteration: the first
\* value that does not parse ends it with the error
TryFromLoop(value, order, m) ==
    IF order = <<>> THEN [ok |-> TRUE, tasks |-> m]
    ELSE LET key == Head(order)
             timestamp == ParseTimestamp(value[key])
         IN  IF ~timestamp.ok THEN Failure(timestamp.error)
             ELSE TryFromLoop(value, Tail(order), Insert(m, key, timestamp.value))

RECURSIVE SkipBadLoop(_, _, _)
SkipBadLoop(value, order, m) ==
    IF order = <<>> THEN [ok |-> TRUE, tasks |-> m]
    ELSE LET key == Head(order)
             timestamp == ParseTimestamp(value[key])
         IN  SkipBadLoop(value, Tail(order),
                         IF timestamp.ok THEN Insert(m, key, timestamp.value) ELSE m)

\* a variant that leaves out the entries that do not parse
try_from_skipping_bad(value, order) == SkipBadLoop(value, order, EmptyMap)

\* impl TryFrom<HashMap<String, String>> for Tasks
try_from(value, order) == TryFromLoop(value, order, EmptyMap)

-----------------------------------------------------------------------------
(* The conversions, as a state machine: a Tasks value is converted to the   *)
(* persisted map and a persisted map is parsed.                             *)

NotADate == <<"n", "o", "t", "-", "a", "-", "d", "a", "t", "e">>

\* timestamps with no fraction, with milliseconds, microseconds and
\* nanoseconds, in a leap second, on 29 February, in the years 1 and 9999 and
\* in years written with a sign
ConvertTimes ==
    { December,
      WithFrac(YmdHms(2023, 11, 3, 7, 5, 9), 500000000),
      WithFrac(YmdHms(2023, 11, 3, 7, 5, 9), 40000000),
      WithFrac(YmdHms(2024, 2, 29, 23, 59, 59), 250000),
      WithFrac(YmdHms(2023, 12, 21, 8, 30, 2), 123456789),
      WithFrac(December, 1),
      WithFrac(YmdHms(2016, 12, 31, 23, 59, 59), Billion + 999999999),
      WithFrac(YmdHms(2016, 12, 31, 23, 59, 59), Billion),
      YmdHms(1, 1, 1, 0, 0, 0),
      WithFrac(YmdHms(-44, 3, 15, 11, 0, 0), 5000),
      YmdHms(12023, 2, 28, 6, 45, 0),
      WithFrac(YmdHms(9999, 12, 31, 12, 0, 0), 999999000) }

\* values of a data file: timestamps as the program writes them, as a person
\* may write them, and strings that are no timestamp
PersistedValues ==
    { FormatTimestamp(December),
      FormatTimestamp(WithFrac(YmdHms(2023, 12, 21, 8, 30, 2), 123456789)),
      <<"2", "0", "2", "3", "-", "1", "-", "2", "T", "3", ":", "4", ":", "5", ".", "5">>,
      NotADate,
      <<>>,
      FormatTimestamp(December) \o <<"Z">>,
      <<"2", "0", "2", "3", "-", "0", "2", "-", "3", "0", "T", "0", "0", ":", "0", "0", ":", "0", "0">>,
      <<"2", "0", "2", "3", "-", "1", "2", "-", "2", "0">> }

InitConvert ==
    /\ \/ /\ op = [kind |-> "new"]
          /\ tasks \in Maps({Dust, Vacuum, The}, ConvertTimes)
          /\ map = EmptyMap
       \/ /\ op = [kind |-> "map"]
          /\ tasks = EmptyMap
          /\ map \in Maps({Dust, Vacuum}, PersistedValues)
    /\ clock = 0
    /\ before = EmptyMap
    /\ loaded = Failure("none")
    /\ output = <<>> /\ printed = <<>>
    /\ file = None /\ pc = None /\ action = None /\ ptasks = None
    /\ contents = None /\ writes = None

\* HashMap::<String, String>::from(tasks), which consumes the Tasks value
Into ==
    /\ op.kind = "new"
    /\ map' = from_tasks(tasks)
    /\ before' = tasks
    /\ tasks' = EmptyMap
    /\ op' = [kind |-> "into"]
    /\ UNCHANGED <<clock, output, printed, loaded, file, pc, action, ptasks, contents, writes>>

\* Tasks::try_from(map)
TryFrom(order) ==
    /\ op.kind \in {"into", "map"}
    /\ loaded' = try_from(map, order)
    /\ op' = [kind |-> "try_from", of |-> op.kind]
    /\ UNCHANGED <<tasks, clock, before, output, printed, map,
                   file, pc, action, ptasks, contents, writes>>

NextConvert ==
    \/ Into
    \/ \E order \in Orders(map) : TryFrom(order)

SpecConvert == InitConvert /\ [][NextConvert]_vars

\* C3: a store converted to the string map and parsed back is the same store:
\* the same names, each with a timestamp equal to the original, sub-second part
\* included.
C3_RoundTrip ==
    (op.kind = "try_from" /\ op.of = "into") =>
        /\ loaded.ok
        /\ DOMAIN loaded.tasks = DOMAIN before
        /\ \A k \in DOMAIN before : loaded.tasks[k] = before[k]

\* a store with nanoseconds, with microseconds and with a leap second
C3_Witness ==
    /\ op.kind = "try_from" /\ op.of = "into"
    /\ DOMAIN before = {Dust, Vacuum, The}
    /\ before[Dust].frac = 123456789
    /\ before[Vacuum].frac = 250000
    /\ before[The].frac = Billion + 999999999
    /\ loaded.ok /\ loaded.tasks = before

-----------------------------------------------------------------------------
(* The program: main (main.rs:21-33), Action::execute and save              *)
(* (args.rs:47-98).  The data file is a record: kind "missing" (no file),   *)
(* "empty" (no bytes), "json" (a JSON object of strings, map) or "garbage"  *)
(* (bytes that are no JSON document); len is its length in bytes.           *)

Invocations == {1, 2}

RECURSIVE EntriesLen(_, _)
\* the bytes of the entries of a pretty-printed object: two spaces, the key
\* and the value in quotes, a colon and a space between them
EntriesLen(m, keys) ==
    IF keys = {} THEN 0
    ELSE LET k == CHOOSE x \in keys : TRUE
         IN  ByteLen(k) + ByteLen(m[k]) + 8 + EntriesLen(m, keys \ {k})

\* the length of serde_json::to_string_pretty(&map): "{}" for no entry, else
\* the entries on lines of their own, separated by commas, between braces
JsonLen(m) ==
    IF DOMAIN m = {} THEN 2
    ELSE 4 + EntriesLen(m, DOMAIN m) + 2 * (Cardinality(DOMAIN m) - 1)

Missing == [kind |-> "missing", map |-> EmptyMap, len |-> 0]
Empty == [kind |-> "empty", map |-> EmptyMap, len |-> 0]
Json(m) == [kind |-> "json", map |-> m, len |-> JsonLen(m)]
Garbage(n) == [kind |-> "garbage", map |-> EmptyMap, len |-> n]

\* a variant that opens the file without truncating it
open_keeping_content(f) == f

\* OpenOptions::new().write(true).truncate(true).open(path): the file has no
\* bytes from here on
open_truncate(f) == Empty

\* write_all of the document of m at the start of the file f: bytes of f
\* beyond the document stay, and then the file is no JSON document
write_all(f, m) == IF f.len <= JsonLen(m) THEN Json(m) ELSE Garbage(f.len)

\* the order in which a map is iterated: some order of all names, cut down to
\* its keys
IterOrder(m, perm) ==
    LET Has(k) == k \in DOMAIN m IN SelectSeq(perm, Has)

CliNames == {Dust, Vacuum}

Do(names) == [kind |-> "do", tasks |-> names, minutes |-> FALSE, provided |-> TRUE]
RemoveAction(names) ==
    [kind |-> "remove", tasks |-> names, minutes |-> FALSE, provided |-> TRUE]
View(minutes, provided, names) ==
    [kind |-> "view", tasks |-> names, minutes |-> minutes, provided |-> provided]

\* what Args::parse can return
Actions ==
    {Do(n) : n \in NameSeqs(CliNames)} \cup {RemoveAction(n) : n \in NameSeqs(CliNames)}
        \cup {View(m, TRUE, n) : m \in BOOLEAN, n \in NameSeqs(CliNames)}
        \cup {View(m, FALSE, <<>>) : m \in BOOLEAN}

\* a variant that saves after a view too
execute_saving_always(act, t, c, perm) ==
    IF act.kind = "do" THEN
        [save |-> TRUE,
         tasks |-> update_multiple(t, act.tasks, [i \in 1..(Len(act.tasks) + 1) |-> c]),
         print |-> <<>>]
    ELSE IF act.kind = "remove" THEN
        [save |-> TRUE, tasks |-> remove_multiple(t, act.tasks), print |-> <<>>]
    ELSE
        LET kept == IF act.provided THEN keep_multiple(t, act.tasks) ELSE t
        IN  [save |-> TRUE, tasks |-> kept,
             print |-> fmt(output_when(kept, ClockAt(c), IF act.minutes THEN "minutes" ELSE "days",
                                       IterOrder(kept, perm)))]

\* Action::execute up to the call of save: whether save is called, the Tasks
\* value then, and what is printed.  c is the clock during the call
execute(act, t, c, perm) ==
    IF act.kind = "do" THEN
        [save |-> TRUE,
         tasks |-> update_multiple(t, act.tasks, [i \in 1..(Len(act.tasks) + 1) |-> c]),
         print |-> <<>>]
    ELSE IF act.kind = "remove" THEN
        [save |-> TRUE, tasks |-> remove_multiple(t, act.tasks), print |-> <<>>]
    ELSE
        LET kept == IF act.provided THEN keep_multiple(t, act.tasks) ELSE t
        IN  [save |-> FALSE, tasks |-> kept,
             print |-> fmt(output_when(kept, ClockAt(c), IF act.minutes THEN "minutes" ELSE "days",
                                       IterOrder(kept, perm)))]

Event(p, call, data) == [inv |-> p, call |-> call, data |-> data]

\* the contents of a data file before the program runs
InitFiles ==
    { Missing, Garbage(7), Json(EmptyMap),
      Json(Dust :> FormatTimestamp(December)),
      Json((Dust :> FormatTimestamp(December))
            @@ (Vacuum :> FormatTimestamp(WithFrac(YmdHms(2023, 12, 21, 8, 29, 30), 500000000)))),
      Json(Dust :> NotADate),
      Json((Dust :> FormatTimestamp(December)) @@ (Vacuum :> NotADate)),
      Json((Dust :> NotADate) @@ (Vacuum :> FormatTimestamp(December))) }

MainIdle ==
    /\ tasks = EmptyMap /\ op = [kind |-> "main"] /\ before = EmptyMap
    /\ output = <<>> /\ map = EmptyMap /\ loaded = Failure("none")

\* one invocation of the program
Init ==
    /\ file \in InitFiles
    /\ action \in {[p \in Invocations |-> a] : a \in Actions}
    /\ pc = (1 :> "start") @@ (2 :> "absent")
    /\ ptasks = [p \in Invocations |-> EmptyMap]
    /\ contents = [p \in Invocations |-> Missing]
    /\ printed = [p \in Invocations |-> <<>>]
    /\ writes = <<>>
    /\ clock = 0
    /\ MainIdle

\* two invocations, each touching or removing one task
InitRace ==
    /\ file \in {Missing, Json(EmptyMap), Json(Dust :> FormatTimestamp(December))}
    /\ action \in [Invocations -> {Do(<<n>>) : n \in CliNames}
                                     \cup {RemoveAction(<<n>>) : n \in CliNames}]
    /\ pc = [p \in Invocations |-> "start"]
    /\ ptasks = [p \in Invocations |-> EmptyMap]
    /\ contents = [p \in Invocations |-> Missing]
    /\ printed = [p \in Invocations |-> <<>>]
    /\ writes = <<>>
    /\ clock = 0
    /\ MainIdle

unchangedLibrary == UNCHANGED <<tasks, op, before, output, map, loaded>>

\* time passes
MainTick ==
    /\ clock < MaxClock
    /\ clock' = clock + 1
    /\ UNCHANGED <<file, pc, action, ptasks, contents, printed, writes>>
    /\ unchangedLibrary

\* app_data_dir: the local data directory is not found
NoDataDir(p) ==
    /\ pc[p] = "start"
    /\ pc' = [pc EXCEPT ![p] = "failed_env"]
    /\ UNCHANGED <<file, action, ptasks, contents, printed, writes, clock>>
    /\ unchangedLibrary

\* ensure_exists: open with create_new makes the file if there is none
EnsureExists(p) ==
    /\ pc[p] = "start"
    /\ IF file.kind = "missing"
       THEN /\ file' = Empty
            /\ writes' = Append(writes, Event(p, "create", EmptyMap))
            /\ pc' = [pc EXCEPT ![p] = "init_write"]
       ELSE /\ UNCHANGED <<file, writes>>
            /\ pc' = [pc EXCEPT ![p] = "read"]
    /\ UNCHANGED <<action, ptasks, contents, printed, clock>>
    /\ unchangedLibrary

\* ensure_exists: file.write_all(EMPTY_JSON_FILE_CONTENT) on the new file
InitWrite(p) ==
    /\ pc[p] = "init_write"
    /\ file' = write_all(file, EmptyMap)
    /\ writes' = Append(writes, Event(p, "init", EmptyMap))
    /\ pc' = [pc EXCEPT ![p] = "read"]
    /\ UNCHANGED <<action, ptasks, contents, printed, clock>>
    /\ unchangedLibrary

\* read, serde_json::from_str and Tasks::try_from, each ending main with its
\* error
Read(p, perm) ==
    /\ pc[p] = "read"
    /\ contents' = [contents EXCEPT ![p] = file]
    /\ writes' = Append(writes, Event(p, "read", file.map))
    /\ IF file.kind # "json"
       THEN /\ pc' = [pc EXCEPT ![p] = "failed_json"]
            /\ UNCHANGED ptasks
       ELSE LET r == try_from(file.map, IterOrder(file.map, perm))
            IN  IF r.ok
                THEN /\ ptasks' = [ptasks EXCEPT ![p] = r.tasks]
                     /\ pc' = [pc EXCEPT ![p] = "execute"]
                ELSE /\ pc' = [pc EXCEPT ![p] = "failed_parse"]
                     /\ UNCHANGED ptasks
    /\ UNCHANGED <<file, action, printed, clock>>
    /\ unchangedLibrary

\* Action::execute: the call on the Tasks value, and then either the report is
\* printed or save opens the file, which truncates it
Execute(p, perm) ==
    /\ pc[p] = "execute"
    /\ LET r == execute(action[p], ptasks[p], clock, perm)
       IN  /\ ptasks' = [ptasks EXCEPT ![p] = r.tasks]
           /\ printed' = [printed EXCEPT ![p] = r.print]
           /\ IF r.save
              THEN /\ file' = open_truncate(file)
                   /\ writes' = Append(writes, Event(p, "truncate", EmptyMap))
                   /\ pc' = [pc EXCEPT ![p] = "write"]
              ELSE /\ UNCHANGED <<file, writes>>
                   /\ pc' = [pc EXCEPT ![p] = "done"]
    /\ UNCHANGED <<action, contents, clock>>
    /\ unchangedLibrary

\* Action::execute of do or remove when save cannot open the file
SaveFails(p, perm) ==
    /\ pc[p] = "execute"
    /\ LET r == execute(action[p], ptasks[p], clock, perm)
       IN  /\ r.save
           /\ ptasks' = [ptasks EXCEPT ![p] = r.tasks]
    /\ pc' = [pc EXCEPT ![p] = "failed_io"]
    /\ UNCHANGED <<file, action, contents, printed, writes, clock>>
    /\ unchangedLibrary

\* save: data_file.write_all(json.as_bytes())
WriteAll(p) ==
    /\ pc[p] = "write"
    /\ file' = write_all(file, from_tasks(ptasks[p]))
    /\ writes' = Append(writes, Event(p, "write_all", from_tasks(ptasks[p])))
    /\ pc' = [pc EXCEPT ![p] = "done"]
    /\ UNCHANGED <<action, ptasks, contents, printed, clock>>
    /\ unchangedLibrary

Perms == Orders([k \in CliNames |-> 0])

Next ==
    \/ MainTick
    \/ \E p \in Invocations : NoDataDir(p)
    \/ \E p \in Invocations : EnsureExists(p)
    \/ \E p \in Invocations : InitWrite(p)
    \/ \E p \in Invocations, perm \in Perms : Read(p, perm)
    \/ \E p \in Invocations, perm \in Perms : Execute(p, perm)
    \/ \E p \in Invocations, perm \in Perms : SaveFails(p, perm)
    \/ \E p \in Invocations : WriteAll(p)

Spec == Init /\ [][Next]_vars

SpecRace == InitRace /\ [][Next]_vars

-----------------------------------------------------------------------------
(* Properties of the program. *)

\* the invocation has read the data file
HasRead(p) == pc[p] \in {"execute", "write", "done", "failed_json", "failed_parse", "failed_io"}

\* the calls of invocation p on the data file that change it when it saves
SaveCalls(p) ==
    SelectSeq(writes, LAMBDA e : e.inv = p /\ e.call \in {"truncate", "write_all"})

\* some value of the map that was read is no timestamp
HasBadValue(p) ==
    /\ contents[p].kind = "json"
    /\ \E k \in DOMAIN contents[p].map : ~ParseTimestamp(contents[p].map[k]).ok

\* C5: if a value of the persisted map is no valid timestamp, whichever entry
\* it is, try_from gives an error and no store, and the invocation ends there:
\* the action is not executed and the data file is as it was.
C5_LoadAllOrNothing ==
    \A p \in Invocations :
        (HasRead(p) /\ HasBadValue(p)) =>
            /\ pc[p] = "failed_parse"
            /\ ptasks[p] = EmptyMap
            /\ printed[p] = <<>>
            /\ SaveCalls(p) = <<>>
            /\ file = contents[p]

\* a file with a good and a bad entry was read
C5_Witness ==
    /\ pc[1] = "failed_parse"
    /\ DOMAIN contents[1].map = {Dust, Vacuum}
    /\ ParseTimestamp(contents[1].map[Dust]).ok
    /\ ~ParseTimestamp(contents[1].map[Vacuum]).ok
    /\ action[1].kind = "remove"
    /\ file = contents[1]

CallAt(p, call) ==
    IF \E i \in 1..Len(writes) : writes[i].inv = p /\ writes[i].call = call
    THEN CHOOSE i \in 1..Len(writes) : writes[i].inv = p /\ writes[i].call = call
    ELSE 0

\* both invocations are done, and both read the file before either began to
\* save
BothLoadedBeforeEitherSaved ==
    /\ \A p \in Invocations : pc[p] = "done"
    /\ \A p, q \in Invocations : CallAt(p, "read") < CallAt(q, "truncate")

\* the invocation whose write_all came last
LastSaver == CHOOSE p \in Invocations :
                \A q \in Invocations : CallAt(q, "write_all") <= CallAt(p, "write_all")

\* the names of the file after the action act alone, from the names keys
KeysAfter(act, keys) ==
    IF act.kind = "do" THEN keys \cup Range(act.tasks) ELSE keys \ Range(act.tasks)

\* C10: nothing serialises two mutating invocations.  When both have read the
\* file before either saves, both read the same contents, and the file in the
\* end, if it is a JSON document, is what the invocation that saved last
\* wrote: its own change to what it read, without the change of the other.
C10_LastSaverWins ==
    BothLoadedBeforeEitherSaved =>
        LET p == LastSaver
            q == CHOOSE x \in Invocations : x # p
        IN  /\ contents[p] = contents[q]
            /\ file.kind \in {"json", "garbage"}
            /\ file.kind = "json" =>
                  /\ file.map = from_tasks(ptasks[p])
                  /\ DOMAIN file.map = KeysAfter(action[p], DOMAIN contents[p].map)
            /\ CallAt(q, "write_all") < CallAt(p, "truncate") =>
                  file = Json(from_tasks(ptasks[p]))

\* one invocation touched dust and the other vacuum, in an empty file; the
\* file holds vacuum alone
C10_Witness ==
    /\ BothLoadedBeforeEitherSaved
    /\ action[1] = Do(<<Dust>>) /\ action[2] = Do(<<Vacuum>>)
    /\ contents[1] = Json(EmptyMap)
    /\ file.kind = "json"
    /\ DOMAIN file.map = {Vacuum}

====
